---- MODULE Spec2Model ----
(***************************************************************************)
(* A model of yaw, a tile-grid raycasting engine (src/src/map.rs,          *)
(* src/src/game.rs, src/src/main.rs).                                      *)
(*                                                                         *)
(* Numbers.  The program computes in f32.  The model computes in fixed     *)
(* point: a world coordinate c is the integer c * FixedOne, an angle a is  *)
(* the integer a * 100 (hundredths of a radian), a unit-vector component   *)
(* v is the integer v * TrigOne.  f32 rounding is not modelled.            *)
(***************************************************************************)
EXTENDS Integers, Sequences, FiniteSets, TLC

VARIABLES
    map,         \* Game.map: the loaded Map
    player,      \* Game.player
    game_state,  \* Game.game_state
    slices,      \* Game.slices: the ray-cast result buffer
    update,      \* Game.update
    canvas,      \* what the last draw put on Game.canvas
    keys,        \* main: the set of held keys
    pending,     \* main: the held keys `for k in keys.iter()` has yet to visit
    pc,          \* main: where 'main_loop stands
    iter,        \* main: iterations of 'main_loop begun so far
    polled,      \* main: events poll_iter has yielded so far
    last_call,   \* the last playing_key call: its key, the pose before, the step
    query,       \* the arguments of the Map::colliding call under study
    answer,      \* what that call returned; Pending before the call
    file,        \* the lines of the map file Map::load reads
    loaded       \* what Map::load made of them; NotLoaded before the call

gameVars == <<player, game_state, slices, update, canvas>>
loopVars == <<keys, pending, pc, iter, polled, last_call>>
collVars == <<query, answer>>
loadVars == <<file, loaded>>
vars == <<map, gameVars, loopVars, collVars, loadVars>>

(***************************************************************************)
(* Bounds of the model.                                                    *)
(***************************************************************************)
\* sub-units per world unit of a fixed-point coordinate
FixedOne == 4
\* the fixed-point unit of a sine or cosine
TrigOne == 1000
\* sample coordinates reach MaxHalfTiles half tiles right of / below the origin
MaxHalfTiles == 5

\* half the number of screen columns: WIDTH is 640 in main.rs, 2 * HalfWidth here
HalfWidth == 2
\* iterations of 'main_loop a behaviour runs
MaxIters == 2
\* events poll_iter yields in a behaviour
MaxEvents == 3
\* keys held at once
MaxHeld == 3
\* lines of the map file Map::load reads
MaxLines == 4
\* full turns by which a prior direction lies outside [0, 2 PI)
MaxWraps == 2

(***************************************************************************)
(* Program constants.  Angles are in hundredths of a radian.               *)
(***************************************************************************)
TILE_SIZE == 32
PI == 314
FRAC_PI_2 == 157
TWO_PI == 2 * PI
\* the 0.1 a turn key adds to or takes from the direction
TURN == 10
\* Player.speed
SPEED == 2
FOV == 60
DOF == 24
WIDTH == 2 * HalfWidth

\* one tile, in fixed-point sub-units
Tile1 == TILE_SIZE * FixedOne

(***************************************************************************)
(* Option<T>: None is the empty sequence, Some(x) the one-element one.     *)
(***************************************************************************)
None == <<>>
Some(x) == <<x>>

(***************************************************************************)
(* map.rs: Tile, CustomTile, Map                                           *)
(***************************************************************************)
\* the char carried by no tile
NoChar == "NUL"
Empty == [tag |-> "Empty", id |-> NoChar]
Spawn == [tag |-> "Spawn", id |-> NoChar]
Custom(c) == [tag |-> "Custom", id |-> c]

CustomTile(collidable, tex_path, half_width, half_height) ==
    [collidable |-> collidable, tex_path |-> tex_path,
     half_width |-> half_width, half_height |-> half_height]

\* `f32 as usize` of the quotient num / den (den > 0): truncation toward
\* zero, and every negative value saturates to 0.
AsUsize(num, den) == IF num < 0 THEN 0 ELSE num \div den

\* Map::vec_to_idx
VecToIdx(m, vec) ==
    (AsUsize(vec[2], Tile1) * m.width) + AsUsize(vec[1], Tile1)

\* Vec::get: main_tiles.get(idx), 0-based
TileGet(m, idx) ==
    IF idx >= 0 /\ idx < Len(m.main_tiles) THEN Some(m.main_tiles[idx + 1]) ELSE None

\* Map::colliding
CollidingIgnoresMode(m, position, is_player) ==
    LET t == TileGet(m, VecToIdx(m, position)) IN
    IF /\ t # None
       /\ t[1].tag = "Custom"
       /\ t[1].id \in DOMAIN m.custom_tiles
    THEN Some(t[1].id)
    ELSE None
Colliding(m, position, is_player) ==
    LET t == TileGet(m, VecToIdx(m, position)) IN
    IF /\ t # None
       /\ t[1].tag = "Custom"
       /\ t[1].id \in DOMAIN m.custom_tiles
       /\ (~is_player \/ m.custom_tiles[t[1].id].collidable)
    THEN Some(t[1].id)
    ELSE None

\* Map::idx_to_vec
IdxToVec(m, idx) ==
    LET x == idx % m.width
        y == (idx - x) \div m.width
    IN  <<x * Tile1, y * Tile1>>

\* Map::get_spawn: the position of the first Spawn tile, if any
GetSpawn(m) ==
    LET at == {i \in 1..Len(m.main_tiles) : m.main_tiles[i] = Spawn} IN
    IF at = {} THEN None
    ELSE Some(IdxToVec(m, (CHOOSE i \in at : \A j \in at : i <= j) - 1))

(***************************************************************************)
(* map.rs: Map::load.  A line is a string and a char a string of length    *)
(* one; anyhow::Result is a record tagged Ok or Err, and a call that       *)
(* panics yields a record tagged Panic.                                    *)
(***************************************************************************)
Ok(v) == [tag |-> "Ok", val |-> v]
Err(msg) == [tag |-> "Err", val |-> msg]
Panic(msg) == [tag |-> "Panic", val |-> msg]

\* u8::MAX
U8Max == (2 ^ 8) - 1

\* the i-th char of s, 1-based
CharAt(s, i) == SubSeq(s, i, i)

\* str::split(sep): the pieces of s between the occurrences of sep
RECURSIVE SplitAt(_, _, _, _)
SplitAt(s, sep, start, i) ==
    IF i > Len(s) THEN <<SubSeq(s, start, Len(s))>>
    ELSE IF CharAt(s, i) = sep
         THEN <<SubSeq(s, start, i - 1)>> \o SplitAt(s, sep, i + 1, i + 1)
         ELSE SplitAt(s, sep, start, i + 1)

Split(s, sep) == SplitAt(s, sep, 1, 1)

\* str::split_once(sep): what is before and after the first sep, if any
SplitOnce(s, sep) ==
    LET at == {i \in 1..Len(s) : CharAt(s, i) = sep} IN
    IF at = {} THEN None
    ELSE LET first == CHOOSE i \in at : \A j \in at : i <= j
         IN  Some(<<SubSeq(s, 1, first - 1), SubSeq(s, first + 1, Len(s))>>)

\* char::to_digit(radix)
Digits == "0123456789abcdef"
CapitalDigits == "0123456789ABCDEF"
ToDigit(c, radix) ==
    LET at == {i \in 1..radix : CharAt(Digits, i) = c \/ CharAt(CapitalDigits, i) = c} IN
    IF at = {} THEN None ELSE Some((CHOOSE i \in at : TRUE) - 1)

\* the digit loop of u8::from_str_radix, from the i-th char on
RECURSIVE Accumulate(_, _, _, _)
Accumulate(s, radix, i, acc) ==
    IF i > Len(s) THEN Ok(acc)
    ELSE LET d == ToDigit(CharAt(s, i), radix) IN
         IF d = None THEN Err("invalid digit found in string")
         ELSE IF (acc * radix) + d[1] > U8Max
              THEN Err("number too large to fit in target type")
              ELSE Accumulate(s, radix, i + 1, (acc * radix) + d[1])

\* u8::from_str_radix; str::parse::<u8> is the radix 10 case
FromStrRadix(s, radix) ==
    IF s = "" THEN Err("cannot parse integer from empty string")
    ELSE IF s = "+" \/ s = "-" THEN Err("invalid digit found in string")
    ELSE IF CharAt(s, 1) = "+" THEN Accumulate(s, radix, 2, 0)
    ELSE Accumulate(s, radix, 1, 0)

\* Color::RGB
RGB(r, g, b) == [r |-> r, g |-> g, b |-> b]

\* parse_hex_color; the slices hex[1..=2], hex[3..=4], hex[4..=5] are 0-based
ParseHexColor(hex) ==
    IF Len(hex) # 7 \/ CharAt(hex, 1) # "#" THEN Err("not a hex string")
    ELSE LET r == FromStrRadix(SubSeq(hex, 2, 3), 16)
             g == FromStrRadix(SubSeq(hex, 4, 5), 16)
             b == FromStrRadix(SubSeq(hex, 5, 6), 16)
         IN  IF r.tag # "Ok" THEN r
             ELSE IF g.tag # "Ok" THEN g
             ELSE IF b.tag # "Ok" THEN b
             ELSE Ok(RGB(r.val, g.val, b.val))

\* Meta::Fog
Fog(dof, color) == [dof |-> dof, color |-> color]

\* `chunks.map(split_once('=')).collect::<Option<HashMap<_, _>>>()`: none when
\* a chunk has no '=', else the map from each key to its last value
CollectParams(chunks) ==
    LET pairs == [i \in 1..Len(chunks) |-> SplitOnce(chunks[i], "=")]
        Last(k) == CHOOSE i \in 1..Len(chunks) :
                      /\ pairs[i][1][1] = k
                      /\ \A j \in 1..Len(chunks) : pairs[j][1][1] = k => j <= i
    IN  IF \E i \in 1..Len(chunks) : Len(pairs[i]) = 0 THEN None
        ELSE Some([k \in {pairs[i][1][1] : i \in 1..Len(chunks)} |-> pairs[Last(k)][1][2]])

\* `params.get(k).unwrap_or(&default)`
GetOr(params, k, default) == IF k \in DOMAIN params THEN params[k] ELSE default

\* Map::parse_meta, reading from line i on: the map and the next unread line
RECURSIVE ParseMeta(_, _, _)
ParseMeta(this, lines, i) ==
    IF i > Len(lines) THEN Ok([this |-> this, next |-> i])
    ELSE IF lines[i] = "" THEN Ok([this |-> this, next |-> i + 1])
    ELSE LET chunks == Split(lines[i], ",")
             directive == Head(chunks)
             params == CollectParams(Tail(chunks))
         IN  IF params = None THEN Err("incorrectly formatted meta")
             ELSE IF directive = "fog"
                  THEN LET dof == FromStrRadix(GetOr(params[1], "dof", "4"), 10)
                           color == ParseHexColor(GetOr(params[1], "color", "#000000"))
                       IN  IF dof.tag # "Ok" THEN dof
                           ELSE IF color.tag # "Ok" THEN color
                           ELSE ParseMeta([this EXCEPT !.meta = @ \cup {Fog(dof.val, color.val)}],
                                          lines, i + 1)
                  ELSE Err("unrecognized meta directive")

\* the legend loop of Map::parse_main (try_for_each), from line i on
RECURSIVE ParseLegend(_, _, _)
ParseLegend(custom_tiles, lines, i) ==
    IF i > Len(lines) THEN [custom_tiles |-> custom_tiles, next |-> i]
    ELSE IF lines[i] = "" THEN [custom_tiles |-> custom_tiles, next |-> i + 1]
    ELSE LET s == lines[i]
             id == CharAt(s, 1)
             other == Split(SubSeq(s, 2, Len(s)), ",")
             Contains(flag) == \E j \in 1..Len(other) : other[j] = flag
         IN  ParseLegend((id :> CustomTile(Contains("collide"), other[1],
                                           Contains("half_width"), Contains("half_height")))
                             @@ custom_tiles,
                         lines, i + 1)

\* `for tile in line.chars()`: the tiles of one grid line, from its j-th char
RECURSIVE ParseRow(_, _, _, _)
ParseRow(custom_tiles, line, j, tiles) ==
    IF j > Len(line) THEN Ok(tiles)
    ELSE LET tile == CharAt(line, j) IN
         IF tile = " " THEN ParseRow(custom_tiles, line, j + 1, Append(tiles, Empty))
         ELSE IF tile = "*" THEN ParseRow(custom_tiles, line, j + 1, Append(tiles, Spawn))
         ELSE IF tile \in DOMAIN custom_tiles
              THEN ParseRow(custom_tiles, line, j + 1, Append(tiles, Custom(tile)))
              ELSE Err("invalid tile in map")

\* the grid loop of Map::parse_main, from line i on
RECURSIVE ParseGrid(_, _, _, _, _)
ParseGrid(custom_tiles, lines, i, height, tiles) ==
    IF i > Len(lines) THEN Ok([height |-> height, tiles |-> tiles, next |-> i])
    ELSE IF lines[i] = "" THEN Ok([height |-> height, tiles |-> tiles, next |-> i + 1])
    ELSE LET row == ParseRow(custom_tiles, lines[i], 1, tiles) IN
         IF row.tag # "Ok" THEN row
         ELSE ParseGrid(custom_tiles, lines, i + 1, height + 1, row.val)

\* Map::parse_main, reading from line i on; `tiles.len() / height` panics
\* when height is 0
ParseMain(this, lines, i) ==
    LET legend == ParseLegend(<<>>, lines, i)
        grid == ParseGrid(legend.custom_tiles, lines, legend.next, 0, <<>>)
    IN  IF grid.tag # "Ok" THEN grid
        ELSE IF grid.val.height = 0 THEN Panic("attempt to divide by zero")
        ELSE Ok([this |-> [this EXCEPT !.width = Len(grid.val.tiles) \div grid.val.height,
                                       !.height = grid.val.height,
                                       !.main_tiles = grid.val.tiles,
                                       !.custom_tiles = legend.custom_tiles],
                 next |-> grid.val.next])

\* Map::default
MapDefault ==
    [width |-> 0, height |-> 0, main_tiles |-> <<>>, custom_tiles |-> <<>>, meta |-> {}]

\* the `while let Some(line) = lines.next()` loop of Map::load, from line i on
RECURSIVE LoadFrom(_, _, _)
LoadFrom(this, lines, i) ==
    IF i > Len(lines) THEN Ok(this)
    ELSE LET section == IF lines[i] = "!!!!META" THEN ParseMeta(this, lines, i + 1)
                        ELSE IF lines[i] = "!!!!MAIN" THEN ParseMain(this, lines, i + 1)
                        ELSE Err("unrecognized directive")
         IN  IF section.tag # "Ok" THEN section
             ELSE LoadFrom(section.val.this, lines, section.val.next)

\* Map::load, of the lines of the file
Load(lines) == LoadFrom(MapDefault, lines, 1)

(***************************************************************************)
(* Arithmetic of the fixed-point model.                                    *)
(***************************************************************************)
Abs(n) == IF n < 0 THEN -n ELSE n

\* n / d (d > 0) rounded to the nearest integer
Round(n, d) ==
    IF n >= 0 THEN ((2 * n) + d) \div (2 * d)
    ELSE -(((2 * (-n)) + d) \div (2 * d))

\* f32 `%`: the remainder has the sign of the dividend
FMod(a, m) == IF a >= 0 THEN a % m ELSE -((-a) % m)

\* sin of an angle, in units of 1 / TrigOne (Bhaskara's rational
\* approximation 16x(pi - x) / (5 pi^2 - 4x(pi - x)), exact at the multiples
\* of pi/2)
Sin(a) ==
    LET r == a % TWO_PI
        x == IF r <= PI THEN r ELSE r - PI
        p == x * (PI - x)
        v == Round(16 * p * TrigOne, (5 * PI * PI) - (4 * p))
    IN  IF r <= PI THEN v ELSE -v

Cos(a) == Sin(a + FRAC_PI_2)

\* glam's Vec2::from_angle: (cos a, sin a)
FromAngle(a) == <<Cos(a), Sin(a)>>

\* the quotient a / b (b # 0) as a fraction <<n, d>> with d > 0
FracDiv(a, b) == IF b > 0 THEN <<a, b>> ELSE <<-a, -b>>

\* a fraction times a fixed-point value, as a fixed-point value
FracMul(f, v) == Round(f[1] * v, f[2])

(***************************************************************************)
(* game.rs: Player                                                         *)
(***************************************************************************)
MkPlayer(pos, direction) ==
    [pos |-> pos, direction |-> direction, speed |-> SPEED, health |-> 255]

\* Player::step: Vec2::from_angle(self.direction) * self.speed
PlayerStep(p) ==
    LET v == FromAngle(p.direction) IN
    <<Round(v[1] * p.speed * FixedOne, TrigOne), Round(v[2] * p.speed * FixedOne, TrigOne)>>

\* Vec2::perp
Perp(v) == <<-v[2], v[1]>>
Neg(v) == <<-v[1], -v[2]>>

\* f32::INFINITY: the integer that stands for it, and its negation for
\* f32::NEG_INFINITY; every other integer is a finite f32
F32Inf == 2 ^ 30

\* f32 `+=` and `-=` of a finite amount: an infinity stays what it is
F32Add(a, b) == IF Abs(a) = F32Inf THEN a ELSE a + b

\* `while direction >= 2 PI { direction -= 2 PI }` at a value where the
\* condition holds and the body leaves the value as it is: the loop goes on
\* for ever
HighSpins(d) == d >= TWO_PI /\ F32Add(d, -TWO_PI) = d

\* while direction >= 2 PI { direction -= 2 PI }: the value the loop ends
\* with, or spins at
RECURSIVE FixHigh(_)
FixHigh(d) == IF d >= TWO_PI /\ ~HighSpins(d) THEN FixHigh(F32Add(d, -TWO_PI)) ELSE d

\* `while direction < 0 { direction += 2 PI }` at a value it never leaves
LowSpins(d) == d < 0 /\ F32Add(d, TWO_PI) = d

\* while direction < 0 { direction += 2 PI }: the value the loop ends with,
\* or spins at
RECURSIVE FixLow(_)
FixLow(d) == IF d < 0 /\ ~LowSpins(d) THEN FixLow(F32Add(d, TWO_PI)) ELSE d

Keycodes ==
    {"Return", "Backspace", "M", "Escape", "W", "A", "S", "D", "Left", "Right", "Q"}

\* Game::playing_key, the match on the key: the candidate step
KeyStep(p, key) ==
    CASE key = "W" -> PlayerStep(p)
      [] key = "D" -> Perp(PlayerStep(p))
      [] key = "S" -> Neg(PlayerStep(p))
      [] key = "A" -> Neg(Perp(PlayerStep(p)))
      [] OTHER -> <<0, 0>>

\* Game::playing_key, the match on the key and the loops that fix the angle
KeyTurn(p, key) ==
    LET d == CASE key = "Left" -> F32Add(p.direction, -TURN)
               [] key = "Right" -> F32Add(p.direction, TURN)
               [] OTHER -> p.direction
    IN  FixLow(FixHigh(d))

\* Game::playing_key never returns: one of the loops that fix the angle spins
KeyHangs(p, key) ==
    LET d == CASE key = "Left" -> F32Add(p.direction, -TURN)
               [] key = "Right" -> F32Add(p.direction, TURN)
               [] OTHER -> p.direction
    IN  HighSpins(FixHigh(d)) \/ LowSpins(FixLow(FixHigh(d)))

\* Game::playing_key, the collision block: x first, then y at the new x
MoveBothOrNothing(m, pos, step) ==
    IF step = <<0, 0>> THEN pos
    ELSE IF Colliding(m, <<pos[1] + step[1], pos[2] + step[2]>>, TRUE) = None
         THEN <<pos[1] + step[1], pos[2] + step[2]>>
         ELSE pos
MoveUncheckedX(m, pos, step) ==
    IF step = <<0, 0>> THEN pos
    ELSE LET x == pos[1] + step[1]
             y == IF Colliding(m, <<x + 0, pos[2] + step[2]>>, TRUE) = None
                  THEN pos[2] + step[2] ELSE pos[2]
         IN  <<x, y>>
Move(m, pos, step) ==
    IF step = <<0, 0>> THEN pos
    ELSE LET x == IF Colliding(m, <<pos[1] + step[1], pos[2] + 0>>, TRUE) = None
                  THEN pos[1] + step[1] ELSE pos[1]
             y == IF Colliding(m, <<x + 0, pos[2] + step[2]>>, TRUE) = None
                  THEN pos[2] + step[2] ELSE pos[2]
         IN  <<x, y>>

\* Game::playing_key
PlayingKey(m, p, key) ==
    [p EXCEPT !.direction = KeyTurn(p, key),
              !.pos = Move(m, p.pos, KeyStep(p, key))]

\* Game::menu_key: nothing
MenuKeyTurns(p, key) == [p EXCEPT !.direction = KeyTurn(p, key)]
MenuKey(p, key) == p

\* Game::menu_key_once
MenuKeyOnceSwapped(gs, key) ==
    CASE key = "Return" -> "Exit"
      [] key = "Backspace" -> "Playing"
      [] OTHER -> gs
MenuKeyOnce(gs, key) ==
    CASE key = "Return" -> "Playing"
      [] key = "Backspace" -> "Exit"
      [] OTHER -> gs

\* Game::playing_key_once
PlayingKeyOnce(gs, key) ==
    CASE key = "M" -> IF gs = "Minimap" THEN "Playing" ELSE "Minimap"
      [] key = "Escape" -> "Paused"
      [] OTHER -> gs

(***************************************************************************)
(* game.rs: Game::cast_rays                                                *)
(***************************************************************************)
\* the Vec2 a RayCast holds: a finite vector, or Vec2::INFINITY
Fin(v) == [inf |-> FALSE, x |-> v[1], y |-> v[2]]
INFINITY == [inf |-> TRUE, x |-> 0, y |-> 0]

\* (FOV as f32).to_radians()
FovRad == Round(FOV * PI, 180)

\* player.direction + (ray_number * ray_delta), then the two loops that fix it
RayAngle(direction, ray_number) ==
    FixHigh(FixLow(direction + Round(ray_number * FovRad, WIDTH)))

\* the block 'x: start and step of the search along horizontal grid lines.
\* The 0.0001 that puts the first crossing inside the tile above is one
\* sub-unit here.
XStart(pos, angle) ==
    LET av == FromAngle(angle)
        slope == FracDiv(av[1], av[2])
        mk(new_y, dy, cardinal) ==
            Some(<< <<FracMul(slope, new_y), new_y>>, <<FracMul(slope, dy), dy>>, cardinal>>)
    IN  IF (angle > 0) /\ (angle < PI)
        THEN mk(Tile1 - FMod(pos[2], Tile1), Tile1, "North")
        ELSE IF (angle > PI) /\ (angle < TWO_PI)
        THEN mk((-FMod(pos[2], Tile1)) - 1, -Tile1, "South")
        ELSE None

\* the block 'y: start and step of the search along vertical grid lines
YStart(pos, angle) ==
    LET av == FromAngle(angle)
        slope == FracDiv(av[2], av[1])
        mk(new_x, dx, cardinal) ==
            Some(<< <<new_x, FracMul(slope, new_x)>>, <<dx, FracMul(slope, dx)>>, cardinal>>)
    IN  IF (angle > FRAC_PI_2) /\ (angle < 3 * FRAC_PI_2)
        THEN mk((-FMod(pos[1], Tile1)) - 1, -Tile1, "East")
        ELSE IF (angle = FRAC_PI_2) \/ (angle = 3 * FRAC_PI_2)
        THEN None
        ELSE mk(Tile1 - FMod(pos[1], Tile1), Tile1, "West")

\* one pass of one search inside `for _ in 0..DOF`: s is the search's
\* Option<(ray, step, cardinal)>, res its Option<(vec, cardinal, tile)>;
\* a tile flagged `skip` is passed over, one flagged `nudge` is hit a quarter
\* step further on.  Returns <<s, res>> after the pass.
SearchStepHitsAll(m, pos, s, res, skip, nudge) ==
    IF (res = None) /\ (s # None)
    THEN LET ray == s[1][1]
             step == s[1][2]
             cardinal == s[1][3]
             tile == Colliding(m, <<pos[1] + ray[1], pos[2] + ray[2]>>, FALSE)
             far == IF m.custom_tiles[tile[1]][nudge]
                    THEN <<Round(step[1], 4), Round(step[2], 4)>>
                    ELSE <<0, 0>>
         IN  << Some(<< <<ray[1] + step[1], ray[2] + step[2]>>, step, cardinal >>),
                IF tile # None
                THEN Some(<< <<ray[1] + far[1], ray[2] + far[2]>>, cardinal, tile[1] >>)
                ELSE None >>
    ELSE <<s, res>>
SearchStep(m, pos, s, res, skip, nudge) ==
    IF (res = None) /\ (s # None)
    THEN LET ray == s[1][1]
             step == s[1][2]
             cardinal == s[1][3]
             tile == Colliding(m, <<pos[1] + ray[1], pos[2] + ray[2]>>, FALSE)
             far == IF m.custom_tiles[tile[1]][nudge]
                    THEN <<Round(step[1], 4), Round(step[2], 4)>>
                    ELSE <<0, 0>>
         IN  << Some(<< <<ray[1] + step[1], ray[2] + step[2]>>, step, cardinal >>),
                IF (tile # None) /\ ~m.custom_tiles[tile[1]][skip]
                THEN Some(<< <<ray[1] + far[1], ray[2] + far[2]>>, cardinal, tile[1] >>)
                ELSE None >>
    ELSE <<s, res>>

\* for _ in 0..DOF { ... }: n passes of both searches
RECURSIVE SearchLoop(_, _, _, _, _, _, _)
SearchLoop(m, pos, x, y, x_res, y_res, n) ==
    IF n = 0 THEN <<x_res, y_res>>
    ELSE LET xs == SearchStep(m, pos, x, x_res, "half_width", "half_height")
             ys == SearchStep(m, pos, y, y_res, "half_height", "half_width")
         IN  SearchLoop(m, pos, xs[1], ys[1], xs[2], ys[2], n - 1)

LengthSquared(v) == (v[1] * v[1]) + (v[2] * v[2])

\* a search's hit (vec, cardinal, tile) with its vector as a RayCast holds it
HitOf(h) == <<Fin(h[1]), h[2], h[3]>>

\* "find shortest ray": the match on (x_res, y_res)
ShortestPrefersX(x_res, y_res) ==
    IF x_res # None THEN HitOf(x_res[1])
    ELSE IF y_res # None THEN HitOf(y_res[1])
    ELSE <<INFINITY, "North", NoChar>>
ShortestTieToX(x_res, y_res) ==
    IF (x_res # None) /\ (y_res # None)
    THEN IF LengthSquared(x_res[1][1]) <= LengthSquared(y_res[1][1])
         THEN HitOf(x_res[1]) ELSE HitOf(y_res[1])
    ELSE IF x_res # None THEN HitOf(x_res[1])
    ELSE IF y_res # None THEN HitOf(y_res[1])
    ELSE <<INFINITY, "North", NoChar>>
Shortest(x_res, y_res) ==
    IF (x_res # None) /\ (y_res # None)
    THEN IF LengthSquared(x_res[1][1]) < LengthSquared(y_res[1][1])
         THEN HitOf(x_res[1]) ELSE HitOf(y_res[1])
    ELSE IF x_res # None THEN HitOf(x_res[1])
    ELSE IF y_res # None THEN HitOf(y_res[1])
    ELSE <<INFINITY, "North", NoChar>>

\* RayCast.hit_where; NaN when the vector is infinite
HitWhere(cardinal, vec, pos) ==
    IF vec.inf THEN [nan |-> TRUE, v |-> 0]
    ELSE [nan |-> FALSE,
          v |-> CASE cardinal = "North" -> Tile1 - FMod(vec.x + pos[1], Tile1)
                  [] cardinal = "East" -> Tile1 - FMod(vec.y + pos[2], Tile1)
                  [] cardinal = "South" -> FMod(vec.x + pos[1], Tile1)
                  [] cardinal = "West" -> FMod(vec.y + pos[2], Tile1)]

\* the two searches of one column: <<x_res, y_res>>
ColumnSearches(m, p, ray_number) ==
    LET angle == RayAngle(p.direction, ray_number) IN
    SearchLoop(m, p.pos, XStart(p.pos, angle), YStart(p.pos, angle), None, None, DOF)

\* the body of `for ray_number in ...`: the RayCast pushed for one column
CastColumn(m, p, ray_number) ==
    LET found == ColumnSearches(m, p, ray_number)
        best == Shortest(found[1], found[2])
    IN  [vec |-> best[1],
         angle |-> RayAngle(p.direction, ray_number),
         face_direction |-> best[2],
         hit_where |-> HitWhere(best[2], best[1], p.pos),
         tile |-> best[3]]

\* the pushes of ray_number = n .. hi - 1 onto buf
RECURSIVE PushColumns(_, _, _, _, _)
PushColumns(buf, m, p, n, hi) ==
    IF n >= hi THEN buf
    ELSE PushColumns(Append(buf, CastColumn(m, p, n)), m, p, n + 1, hi)

\* Game::cast_rays: self.slices.clear(), then one push per column
CastRaysKeepsOld(m, p, buf) == PushColumns(buf, m, p, -HalfWidth, HalfWidth)
CastRays(m, p, buf) == PushColumns(<<>>, m, p, -HalfWidth, HalfWidth)

(***************************************************************************)
(* game.rs: Game::playing_draw.  The canvas is modelled by what was drawn: *)
(* the screen, the columns that got a wall strip, the minimap overlay.     *)
(* Texture files are taken to exist and decode.                            *)
(***************************************************************************)
BlankCanvas == [screen |-> "none", strips |-> {}, minimap |-> FALSE]

\* "DRAW WALLS": column i needs its tile's texture; Map::tex_path indexes
\* custom_tiles with the tile's symbol and panics when it is no key.
\* The columns (0-based) in front of the first such slice.
RECURSIVE DrawnBeforePanic(_, _, _)
DrawnBeforePanic(m, buf, i) ==
    IF i > Len(buf) THEN {}
    ELSE IF buf[i].tile \notin DOMAIN m.custom_tiles THEN {}
    ELSE {i - 1} \cup DrawnBeforePanic(m, buf, i + 1)

\* whether "DRAW WALLS" panics
WallsPanic(m, buf) == \E i \in 1..Len(buf) : buf[i].tile \notin DOMAIN m.custom_tiles

(***************************************************************************)
(* The maps the model draws from.  A legend with a collidable tile A, a     *)
(* walk-through tile B, a half_height tile H and a half_width tile V;      *)
(* every grid of the listed shapes over Empty, Spawn, A and B.             *)
(***************************************************************************)
Legend == [c \in {"A", "B", "H", "V"} |->
              CASE c = "A" -> CustomTile(TRUE, "w", FALSE, FALSE)
                [] c = "B" -> CustomTile(FALSE, "w", FALSE, FALSE)
                [] c = "H" -> CustomTile(TRUE, "w", FALSE, TRUE)
                [] c = "V" -> CustomTile(TRUE, "w", TRUE, FALSE)]

TileKinds == {Empty, Spawn, Custom("A"), Custom("B")}

Shapes == {<<1, 1>>, <<2, 1>>, <<1, 2>>, <<2, 2>>}

MkMap(w, h, tiles) ==
    [width |-> w, height |-> h, main_tiles |-> tiles, custom_tiles |-> Legend, meta |-> {}]

QueryMaps ==
    UNION {{MkMap(s[1], s[2], t) : t \in [1..(s[1] * s[2]) -> TileKinds]} : s \in Shapes}

\* sample coordinates: one tile left of / above the origin up to MaxHalfTiles
\* half tiles past it, each half-tile mark and the sub-unit just before it
Coords == {(h * (Tile1 \div 2)) - e : h \in (-2)..MaxHalfTiles, e \in {0, 1}}

\* not an Option value: no call has returned yet
Pending == <<"no", "answer">>
NoQuery == [position |-> <<0, 0>>, is_player |-> FALSE]

\* a map given by the rows of its grid, as the grid section of a map file
\* spells them: " " Empty, "*" Spawn, any other character a Custom tile
TileOfChar(c) == IF c = " " THEN Empty ELSE IF c = "*" THEN Spawn ELSE Custom(c)

RECURSIVE Flatten(_)
Flatten(rows) == IF rows = <<>> THEN <<>> ELSE Head(rows) \o Flatten(Tail(rows))

MapOfRows(rows) ==
    MkMap(Len(rows[1]), Len(rows), [i \in 1..Len(Flatten(rows)) |-> TileOfChar(Flatten(rows)[i])])

\* a room: the spawn cell walled in on all sides
RoomMap == MapOfRows(<< <<"A", "A", "A">>, <<"A", "*", "A">>, <<"A", "A", "A">> >>)
\* an open map: a walk-through tile right of the spawn, a wall below it
OpenMap == MapOfRows(<< <<"*", "B">>, <<"A", " ">> >>)
\* a map with no custom tile in its grid
BareMap == MapOfRows(<< <<"*", " ">> >>)

\* a room with thin obstacles in front of two of its walls
ThinMap ==
    MapOfRows(<< <<"A", "A", "A", "A">>, <<"A", "*", "V", "A">>,
                 <<"A", "H", " ", "A">>, <<"A", "A", "A", "A">> >>)

GameMaps == {RoomMap, OpenMap, BareMap}
\* a corridor of one row: the spawn at its west end, a wall at its east end
Corridor(cells) ==
    MkMap(cells, 1, [i \in 1..cells |->
                       IF i = 1 THEN Spawn ELSE IF i = cells THEN Custom("A") ELSE Empty])
\* the wall DOF cells east of the spawn cell, and the wall one cell further
LastWallMap == Corridor(DOF + 1)
FarWallMap == Corridor(DOF + 2)

\* a room with thin obstacles seen edge-on: a half_height tile east of the
\* spawn, a half_width tile south of it
EdgeOnMap ==
    MapOfRows(<< <<"A", "A", "A", "A">>, <<"A", "*", "H", "A">>,
                 <<"A", "V", "H", "A">>, <<"A", "A", "A", "A">> >>)

RayMaps == {RoomMap, OpenMap, BareMap, ThinMap, EdgeOnMap, LastWallMap, FarWallMap}

NoCall == [key |-> "none", from |-> <<0, 0>>, step |-> <<0, 0>>, state |-> "none"]

\* not a Result value: Map::load has not been called
NotLoaded == [tag |-> "NotLoaded", val |-> <<>>]
NoLoad == file = <<>> /\ loaded = NotLoaded

(***************************************************************************)
(* Spec: main.rs, fn main from Game::new on.                               *)
(***************************************************************************)
\* Game::new, and main's `keys`
Init ==
    /\ map \in GameMaps
    /\ player = MkPlayer(GetSpawn(map)[1], 0)
    /\ game_state = "Menu"
    /\ slices = <<>>
    /\ update = TRUE
    /\ canvas = BlankCanvas
    /\ keys = {}
    /\ pending = {}
    /\ pc = "poll"
    /\ iter = 1
    /\ polled = 0
    /\ last_call = NoCall
    /\ query = NoQuery
    /\ answer = Pending
    /\ NoLoad

\* Event::Quit
Quit ==
    /\ pc = "poll"
    /\ iter <= MaxIters
    /\ polled < MaxEvents
    /\ pc' = "stopped"
    /\ polled' = polled + 1
    /\ UNCHANGED <<map, gameVars, keys, pending, iter, last_call, collVars, loadVars>>

\* Event::KeyDown { keycode: Some(k), repeat }
KeyDown(k, repeat) ==
    /\ pc = "poll"
    /\ iter <= MaxIters
    /\ polled < MaxEvents
    /\ Cardinality(keys \cup {k}) <= MaxHeld
    /\ keys' = keys \cup {k}
    /\ polled' = polled + 1
    /\ IF repeat
       THEN UNCHANGED <<game_state, update, pc>>
       ELSE IF game_state = "Exit"
       THEN pc' = "stopped" /\ UNCHANGED <<game_state, update>>
       ELSE /\ game_state' =
                CASE game_state = "Menu" -> MenuKeyOnce(game_state, k)
                  [] game_state \in {"Playing", "Minimap"} -> PlayingKeyOnce(game_state, k)
                  [] game_state = "Paused" -> "Playing"
            /\ update' = TRUE
            /\ UNCHANGED pc
    /\ UNCHANGED <<map, player, slices, canvas, pending, iter, last_call, collVars, loadVars>>

\* Event::KeyUp { keycode: Some(k) }, for a held key (for any other key
\* keys.remove changes nothing)
KeyUp(k) ==
    /\ pc = "poll"
    /\ iter <= MaxIters
    /\ polled < MaxEvents
    /\ k \in keys
    /\ keys' = keys \ {k}
    /\ polled' = polled + 1
    /\ UNCHANGED <<map, gameVars, pending, pc, iter, last_call, collVars, loadVars>>

\* poll_iter is exhausted: `for k in keys.iter()` starts
EndPoll ==
    /\ pc = "poll"
    /\ iter <= MaxIters
    /\ pending' = keys
    /\ pc' = IF keys = {} THEN "draw" ELSE "held"
    /\ UNCHANGED <<map, gameVars, keys, iter, polled, last_call, collVars, loadVars>>

\* one pass of `for k in keys.iter()`; a HashSet yields its keys in any order
HeldKey(k) ==
    /\ pc = "held"
    /\ k \in pending
    /\ pending' = pending \ {k}
    /\ CASE game_state = "Menu" ->
              /\ player' = MenuKey(player, k)
              /\ update' = TRUE
              /\ pc' = IF pending' = {} THEN "draw" ELSE "held"
              /\ UNCHANGED last_call
         [] game_state \in {"Playing", "Minimap"} ->
              /\ player' = PlayingKey(map, player, k)
              /\ update' = TRUE
              /\ pc' = IF pending' = {} THEN "draw" ELSE "held"
              /\ last_call' = [key |-> k, from |-> player.pos,
                               step |-> KeyStep(player, k), state |-> game_state]
         [] game_state = "Paused" ->
              /\ pc' = IF pending' = {} THEN "draw" ELSE "held"
              /\ UNCHANGED <<player, update, last_call>>
         [] game_state = "Exit" ->
              /\ pc' = "stopped"
              /\ UNCHANGED <<player, update, last_call>>
    /\ UNCHANGED <<map, game_state, slices, canvas, keys, iter, polled, collVars, loadVars>>

\* the end of an iteration of 'main_loop: the next one starts
NextIteration ==
    /\ pc' = "poll"
    /\ iter' = iter + 1
    /\ UNCHANGED polled

\* `if game.update`, GameState::Menu: menu_draw
DrawMenu ==
    /\ pc = "draw" /\ update /\ game_state = "Menu"
    /\ canvas' = [canvas EXCEPT !.screen = "menu"]
    /\ update' = FALSE
    /\ NextIteration
    /\ UNCHANGED <<map, player, game_state, slices, keys, pending, last_call, collVars, loadVars>>

\* `if game.update`, GameState::Playing | GameState::Minimap: playing_draw.
\* A panic in "DRAW WALLS" ends the program.
DrawPlaying ==
    /\ pc = "draw" /\ update /\ game_state \in {"Playing", "Minimap"}
    /\ slices' = CastRays(map, player, slices)
    /\ IF WallsPanic(map, slices')
       THEN /\ canvas' = [screen |-> "playing",
                          strips |-> DrawnBeforePanic(map, slices', 1),
                          minimap |-> FALSE]
            /\ pc' = "panicked"
            /\ UNCHANGED <<update, iter, polled>>
       ELSE /\ canvas' = [screen |-> "playing",
                          strips |-> 0..(Len(slices') - 1),
                          minimap |-> (game_state = "Minimap")]
            /\ update' = FALSE
            /\ NextIteration
    /\ UNCHANGED <<map, player, game_state, keys, pending, last_call, collVars, loadVars>>

\* `if game.update`, GameState::Paused: pause_draw
DrawPaused ==
    /\ pc = "draw" /\ update /\ game_state = "Paused"
    /\ canvas' = [canvas EXCEPT !.screen = "paused"]
    /\ update' = FALSE
    /\ NextIteration
    /\ UNCHANGED <<map, player, game_state, slices, keys, pending, last_call, collVars, loadVars>>

\* `if game.update`, GameState::Exit => break
DrawExitGoesOn ==
    /\ pc = "draw" /\ update /\ game_state = "Exit"
    /\ update' = FALSE
    /\ NextIteration
    /\ UNCHANGED <<map, player, game_state, slices, canvas, keys, pending, last_call, collVars, loadVars>>
DrawExit ==
    /\ pc = "draw" /\ update /\ game_state = "Exit"
    /\ pc' = "stopped"
    /\ UNCHANGED <<map, gameVars, keys, pending, iter, polled, last_call, collVars, loadVars>>

\* `if game.update` is false: nothing is drawn
NoDraw ==
    /\ pc = "draw" /\ ~update
    /\ NextIteration
    /\ UNCHANGED <<map, gameVars, keys, pending, last_call, collVars, loadVars>>

Next ==
    \/ Quit
    \/ \E k \in Keycodes, repeat \in BOOLEAN : KeyDown(k, repeat)
    \/ \E k \in Keycodes : KeyUp(k)
    \/ EndPoll
    \/ \E k \in Keycodes : HeldKey(k)
    \/ DrawMenu
    \/ DrawPlaying
    \/ DrawPaused
    \/ DrawExit
    \/ NoDraw

Spec == Init /\ [][Next]_vars

\* C1: a non-zero step of playing_key is applied per axis: x is added iff the
\* player-mode query at (x+dx, y) is none, y is added iff the player-mode
\* query at (the then-current x, y+dy) is none; an axis whose destination is
\* blocked keeps its coordinate while the open axis moves (wall sliding).
C1_PerAxisMove ==
    (last_call.key # "none" /\ last_call.step # <<0, 0>>) =>
        LET x == last_call.from[1]
            y == last_call.from[2]
            dx == last_call.step[1]
            dy == last_call.step[2]
            x_open == Colliding(map, <<x + dx, y>>, TRUE) = None
            now_x == IF x_open THEN x + dx ELSE x
            y_open == Colliding(map, <<now_x, y + dy>>, TRUE) = None
        IN  /\ player.pos[1] = (IF x_open THEN x + dx ELSE x)
            /\ player.pos[2] = (IF y_open THEN y + dy ELSE y)

\* C1 witness: a diagonal step whose y destination is a wall and whose x
\* destination is open moved the player along x only
C1_Witness ==
    /\ last_call.step[1] # 0
    /\ last_call.step[2] # 0
    /\ player.pos = <<last_call.from[1] + last_call.step[1], last_call.from[2]>>
    /\ Colliding(map, <<player.pos[1], last_call.from[2] + last_call.step[2]>>, TRUE) # None

\* C3: when playing_draw meets a column whose result is the no-hit sentinel
\* it skips the column and neither fails nor aborts: every column with a hit
\* has its strip drawn and the draw completes.
C3_SentinelColumnSkipped ==
    (canvas.screen = "playing" /\ (\E i \in 1..Len(slices) : slices[i].vec.inf)) =>
        /\ pc # "panicked"
        /\ canvas.strips = {i - 1 : i \in {j \in 1..Len(slices) : ~slices[j].vec.inf}}

\* the transitions C8 lists: the state a non-repeat press of key k gives in
\* state gs, or gs itself where the table names no transition
TransitionTable(gs, k) ==
    CASE gs = "Menu" /\ k = "Return" -> {"Playing"}
      [] gs = "Menu" /\ k = "Backspace" -> {"Exit"}
      [] gs = "Menu" /\ k \notin {"Return", "Backspace"} -> {"Menu"}
      [] gs = "Playing" /\ k = "M" -> {"Minimap"}
      [] gs = "Minimap" /\ k = "M" -> {"Playing"}
      [] gs = "Playing" /\ k = "Escape" -> {"Paused"}
      [] gs = "Paused" -> {"Playing"}
      [] OTHER -> {"Menu", "Playing", "Minimap", "Paused", "Exit"}

\* C8: every non-repeat key press changes the game state as the transition
\* table says (Menu: Return -> Playing, Backspace -> Exit, else Menu; Playing:
\* M -> Minimap, Escape -> Paused; Minimap: M -> Playing; Paused: any key ->
\* Playing), and no other step changes the game state.
C8_TransitionTable ==
    [][/\ \A k \in Keycodes :
            (KeyDown(k, FALSE) /\ pc' = "poll") => game_state' \in TransitionTable(game_state, k)
       /\ (game_state' # game_state) => \E k \in Keycodes : KeyDown(k, FALSE)]_vars

\* C8 witness: the game was paused, the pause screen drawn, and a key press
\* resumed play
C8_Witness == game_state = "Playing" /\ canvas.screen = "paused"

\* C9: Exit is terminal: from a state in Exit no step changes the game state,
\* the player, the slices or the canvas, no new iteration of the main loop
\* begins, and the held-key loop and the draw step of that iteration stop
\* the loop.
C9_ExitTerminal ==
    [][game_state = "Exit" =>
          /\ game_state' = "Exit"
          /\ player' = player
          /\ slices' = slices
          /\ canvas' = canvas
          /\ iter' = iter
          /\ (pc \in {"held", "draw"}) => pc' = "stopped"]_vars

\* C9 witness: Exit was entered, the key released, and the loop stopped at
\* the draw step of the same iteration
C9_Witness == game_state = "Exit" /\ pc = "stopped" /\ keys = {} /\ iter = 1

\* C10: a pass of the held-key loop changes the player's position and
\* direction only in Playing and Minimap, where it is playing_key's result in
\* both; in Menu, Paused and Exit it leaves the player unchanged.
C10_HeldKeysByState ==
    [][\A k \in Keycodes :
          (pc = "held" /\ k \in pending /\ pending' = pending \ {k}) =>
              player' = IF game_state \in {"Playing", "Minimap"}
                        THEN PlayingKey(map, player, k)
                        ELSE player]_vars

\* C10 witness: a held movement key moved the player while in Minimap
C10_Witness ==
    /\ last_call.state = "Minimap"
    /\ last_call.key = "W"
    /\ player.pos # last_call.from

(***************************************************************************)
(* SpecColl: one call of Map::colliding on any map, position and mode.     *)
(***************************************************************************)
\* the variables of main and Game that a specification of one call leaves alone
Idle ==
    /\ player = MkPlayer(<<0, 0>>, 0)
    /\ game_state = "Menu"
    /\ slices = <<>>
    /\ update = TRUE
    /\ canvas = BlankCanvas
    /\ keys = {}
    /\ pending = {}
    /\ pc = "call"
    /\ iter = 1
    /\ polled = 0
    /\ last_call = NoCall

InitColl ==
    /\ NoLoad
    /\ map \in QueryMaps
    /\ query \in [position : Coords \X Coords, is_player : BOOLEAN]
    /\ answer = Pending
    /\ Idle

CallColliding ==
    /\ answer = Pending
    /\ answer' = Colliding(map, query.position, query.is_player)
    /\ UNCHANGED <<map, query, gameVars, loopVars, loadVars>>

NextColl == CallColliding

SpecColl == InitColl /\ [][NextColl]_vars

(***************************************************************************)
(* SpecRay: one run of Game::cast_rays from any sampled pose, over a       *)
(* buffer that is empty or holds a previous frame.                         *)
(***************************************************************************)
\* sample positions of the player: points of the spawn cell, by their offset
\* along each axis from the cell's corner, where Game::new puts the player
PoseOffsets == {0, 1, Tile1 \div 2, Tile1 - 1}

PosePositions(m) ==
    {<<GetSpawn(m)[1][1] + dx, GetSpawn(m)[1][2] + dy>> : dx \in PoseOffsets, dy \in PoseOffsets}

\* sample directions: what turns of 0.1 from 0 reach without wrapping
PoseDirections == {d \in 0..(TWO_PI - 1) : d % TURN = 0}

\* a slice no run of cast_rays produces
StaleSlice ==
    [vec |-> Fin(<<0, 0>>), angle |-> 0, face_direction |-> "South",
     hit_where |-> [nan |-> FALSE, v |-> 0], tile |-> "stale"]

OldBuffers == {<<>>, [i \in 1..WIDTH |-> StaleSlice]}

InitRay ==
    /\ map \in RayMaps
    /\ player \in {MkPlayer(pos, d) : pos \in PosePositions(map), d \in PoseDirections}
    /\ slices \in OldBuffers
    /\ game_state = "Playing"
    /\ update = TRUE
    /\ canvas = BlankCanvas
    /\ keys = {}
    /\ pending = {}
    /\ pc = "call"
    /\ iter = 1
    /\ polled = 0
    /\ last_call = NoCall
    /\ query = NoQuery
    /\ answer = Pending
    /\ NoLoad

CallCastRays ==
    /\ pc = "call"
    /\ slices' = CastRays(map, player, slices)
    /\ pc' = "done"
    /\ UNCHANGED <<map, player, game_state, update, canvas, keys, pending, iter, polled,
                   last_call, collVars, loadVars>>

NextRay == CallCastRays

SpecRay == InitRay /\ [][NextRay]_vars

\* the ray_number of the column at (1-based) place i of the buffer
RayNumber(i) == (i - 1) - HalfWidth

\* column i's slice reports the search hit h = (vec, cardinal, tile)
Reports(i, h) ==
    /\ slices[i].vec = Fin(h[1])
    /\ slices[i].face_direction = h[2]
    /\ slices[i].tile = h[3]

IsSentinel(s) == s.vec = INFINITY /\ s.tile = NoChar

\* C4: per column, when both searches hit, the strictly shorter hit is
\* reported with its face direction and tile; when exactly one hit, that hit;
\* when neither hit within DOF steps, the sentinel (infinite vector, no
\* tile).  On a map with no custom tile every column is the sentinel.
C4_ShortestHitReported ==
    pc = "done" =>
        /\ Len(slices) = WIDTH
        /\ \A i \in 1..Len(slices) :
              LET found == ColumnSearches(map, player, RayNumber(i))
                  x_res == found[1]
                  y_res == found[2]
              IN  /\ (x_res # None /\ y_res # None
                        /\ LengthSquared(x_res[1][1]) < LengthSquared(y_res[1][1]))
                     => Reports(i, x_res[1])
                  /\ (x_res # None /\ y_res # None
                        /\ LengthSquared(y_res[1][1]) < LengthSquared(x_res[1][1]))
                     => Reports(i, y_res[1])
                  /\ (x_res # None /\ y_res = None) => Reports(i, x_res[1])
                  /\ (x_res = None /\ y_res # None) => Reports(i, y_res[1])
                  /\ (x_res = None /\ y_res = None) => IsSentinel(slices[i])
        /\ (\A j \in 1..Len(map.main_tiles) : map.main_tiles[j].tag # "Custom")
              => \A i \in 1..Len(slices) : IsSentinel(slices[i])

\* C4 witness: one frame holds a column where both searches hit and the
\* vertical-line hit is strictly shorter, one where only one search hit, and
\* one where neither did
C4_Witness ==
    /\ pc = "done"
    /\ \E i \in 1..Len(slices) :
          LET found == ColumnSearches(map, player, RayNumber(i)) IN
          /\ found[1] # None /\ found[2] # None
          /\ LengthSquared(found[2][1][1]) < LengthSquared(found[1][1][1])
          /\ slices[i].face_direction \in {"East", "West"}
    /\ \E i \in 1..Len(slices) :
          LET found == ColumnSearches(map, player, RayNumber(i)) IN
          (found[1] = None) # (found[2] = None)
    /\ \E i \in 1..Len(slices) : IsSentinel(slices[i])

\* the tile main_tiles holds at the index of the queried position, if any
QueriedTile == TileGet(map, VecToIdx(map, query.position))

\* the queried position lies outside the grid's rectangle
OutsideGrid ==
    \/ query.position[1] < 0
    \/ query.position[2] < 0
    \/ query.position[1] >= map.width * Tile1
    \/ query.position[2] >= map.height * Tile1

\* C2: colliding returns the symbol of the cell at the position iff that cell
\* is a Custom tile and (the query is in ray mode or the tile is collidable),
\* and none in every other case (Empty, Spawn, walk-through tile in player
\* mode, no cell).
C2_CollidingByMode ==
    answer # Pending =>
        LET t == QueriedTile
            hit == /\ t # None
                   /\ t[1].tag = "Custom"
                   /\ (~query.is_player \/ map.custom_tiles[t[1].id].collidable)
        IN  /\ hit => answer = Some(t[1].id)
            /\ ~hit => answer = None

\* C2 witness: a player-mode query on a walk-through custom tile answered none
C2_Witness ==
    /\ answer = None
    /\ query.is_player
    /\ QueriedTile # None
    /\ QueriedTile[1] = Custom("B")
    /\ ~OutsideGrid

\* C5: for every position outside the grid, vec_to_idx yields an index outside
\* 0..width*height and colliding returns none in both modes.
C5_OutsideGridIsNoTile ==
    (answer # Pending /\ OutsideGrid) =>
        /\ VecToIdx(map, query.position) \notin 0..((map.width * map.height) - 1)
        /\ answer = None

(***************************************************************************)
(* SpecLoad: one call of Map::load on a map file of up to MaxLines lines.  *)
(***************************************************************************)
\* the lines a map file is made of: section directives, the section end,
\* metadata lines that are well formed, not key=value, of an unknown
\* directive and of a dof no u8 holds, a legend line and grid lines
SourceLines ==
    {"!!!!META", "!!!!MAIN", "",
     "fog", "fog,dof=7,color=#0a1B2c", "fog,dof", "sky,dof=7", "fog,dof=256",
     "Aw,collide", "A*", "* ", "*"}

Files == UNION {[1..n -> SourceLines] : n \in 0..MaxLines}

InitLoad ==
    /\ map = MapDefault
    /\ file \in Files
    /\ loaded = NotLoaded
    /\ query = NoQuery
    /\ answer = Pending
    /\ Idle

CallLoad ==
    /\ loaded.tag = "NotLoaded"
    /\ loaded' = Load(file)
    /\ UNCHANGED <<map, file, gameVars, loopVars, collVars>>

NextLoad == CallLoad

SpecLoad == InitLoad /\ [][NextLoad]_vars

\* the malformed sources: the file's first line is no section directive
UnknownSection == Len(file) >= 1 /\ file[1] \notin {"!!!!META", "!!!!MAIN"}

\* the first metadata line names a directive other than fog, or has a
\* parameter with no '='
MalformedMeta ==
    /\ Len(file) >= 2
    /\ file[1] = "!!!!META"
    /\ file[2] # ""
    /\ LET chunks == Split(file[2], ",") IN
       \/ Head(chunks) # "fog"
       \/ \E j \in 2..Len(chunks) : \A k \in 1..Len(chunks[j]) : CharAt(chunks[j], k) # "="

\* with an empty legend, the first grid line has a char other than ' ', '*'
NoLegendEntry ==
    /\ Len(file) >= 3
    /\ file[1] = "!!!!MAIN"
    /\ file[2] = ""
    /\ \E j \in 1..Len(file[3]) : CharAt(file[3], j) \notin {" ", "*"}

\* the main section's legend is followed by no grid line
EmptyGrid ==
    /\ Len(file) >= 1
    /\ file[1] = "!!!!MAIN"
    /\ \E j \in 2..(Len(file) + 1) :
          /\ \A k \in 2..(j - 1) : file[k] # ""
          /\ \/ j > Len(file)
             \/ file[j] = "" /\ (j + 1 > Len(file) \/ file[j + 1] = "")

\* C6: Map::load returns Err, and does not crash, for a source with an
\* unknown section directive, with a metadata line of an unknown directive
\* or a parameter that is not key=value, with a grid character that has no
\* legend entry, and with a main section whose grid has no rows.
C6_MalformedIsErr ==
    (loaded.tag # "NotLoaded" /\ (UnknownSection \/ MalformedMeta \/ NoLegendEntry \/ EmptyGrid)) =>
        loaded.tag = "Err"

\* C7: every map Map::load returns with Ok has as many main_tiles as
\* width * height, whatever the lengths of the grid lines.
C7_TilesFillGrid ==
    loaded.tag = "Ok" =>
        Len(loaded.val.main_tiles) = loaded.val.width * loaded.val.height

(***************************************************************************)
(* SpecTurn: one call of Game::playing_key with any key, from the spawn    *)
(* position and any sampled value of the f32 Player.direction.             *)
(***************************************************************************)
\* the prior directions: every finite value up to MaxWraps turns below 0 or
\* past 2 PI, and the two infinities
PriorDirections ==
    ((-(MaxWraps * TWO_PI))..(((MaxWraps + 1) * TWO_PI))) \cup {F32Inf, -F32Inf}

InitTurn ==
    /\ map \in GameMaps
    /\ player \in {MkPlayer(GetSpawn(map)[1], d) : d \in PriorDirections}
    /\ game_state = "Playing"
    /\ slices = <<>>
    /\ update = TRUE
    /\ canvas = BlankCanvas
    /\ keys = {}
    /\ pending = {}
    /\ pc = "call"
    /\ iter = 1
    /\ polled = 0
    /\ last_call = NoCall
    /\ query = NoQuery
    /\ answer = Pending
    /\ NoLoad

\* Game::playing_key(key): it returns, or spins in a loop that fixes the angle
CallPlayingKey(key) ==
    /\ pc = "call"
    /\ IF KeyHangs(player, key)
       THEN /\ player' = [player EXCEPT !.direction = KeyTurn(player, key)]
            /\ pc' = "hung"
       ELSE /\ player' = PlayingKey(map, player, key)
            /\ pc' = "done"
    /\ last_call' = [key |-> key, from |-> player.pos, step |-> <<0, 0>>, state |-> "Playing"]
    /\ UNCHANGED <<map, game_state, slices, update, canvas, keys, pending, iter, polled,
                   collVars, loadVars>>

NextTurn == \E key \in Keycodes : CallPlayingKey(key)

SpecTurn == InitTurn /\ [][NextTurn]_vars

TileFloor(v) == (v \div Tile1) * Tile1

\* idx_to_vec after vec_to_idx
CellCorner(m, p) == IdxToVec(m, VecToIdx(m, p))

\* C12: for every world position p, idx_to_vec(vec_to_idx(p)) is p rounded
\* down per axis to the nearest multiple of TILE_SIZE, and applying the
\* composition to that result returns it unchanged.
C12_RoundsDownIdempotent ==
    LET p == query.position
        q == CellCorner(map, p)
    IN  /\ q = <<TileFloor(p[1]), TileFloor(p[2])>>
        /\ CellCorner(map, q) = q

\* the k-th crossing (from 0) of a search that starts as s = Some(ray, step,
\* cardinal), and that crossing a quarter step further on
Crossing(s, k) == <<s[1][1][1] + (k * s[1][2][1]), s[1][1][2] + (k * s[1][2][2])>>
Nudged(s, k) ==
    <<Crossing(s, k)[1] + Round(s[1][2][1], 4), Crossing(s, k)[2] + Round(s[1][2][2], 4)>>

\* the vector of a slice is the sentinel's, or lies on one of the first DOF
\* crossings of one of the two searches of its column
WithinDof(s, pos) ==
    \/ s.vec.inf
    \/ \E start \in {XStart(pos, s.angle), YStart(pos, s.angle)} :
          /\ start # None
          /\ \E k \in 0..(DOF - 1) :
                <<s.vec.x, s.vec.y>> \in {Crossing(start, k), Nudged(start, k)}

\* C13: a run of cast_rays leaves exactly WIDTH entries, the i-th computed
\* for the i-th column from the left and the current pose; no entry the
\* buffer held before survives, whatever it held; and every entry comes from
\* at most DOF steps of each search: beyond them the column is the sentinel.
C13_BufferRebuilt ==
    [][(pc = "call" /\ pc' = "done") =>
          /\ Len(slices') = WIDTH
          /\ \A i \in 1..Len(slices') :
                /\ slices'[i].angle = RayAngle(player.direction, RayNumber(i))
                /\ slices'[i] = CastColumn(map, player, RayNumber(i))
                /\ \A j \in 1..Len(slices) : slices'[i] # slices[j]
                /\ WithinDof(slices'[i], player.pos)
          /\ (map = FarWallMap /\ player.direction = 0) => IsSentinel(slices'[HalfWidth + 1])
          /\ (map = LastWallMap /\ player.direction = 0) => slices'[HalfWidth + 1].tile = "A"]_vars

\* C13 witness: a run over a full buffer ended with the wall that the last
\* of the DOF steps reaches in the column straight ahead
C13_Witness ==
    /\ pc = "done"
    /\ map = LastWallMap
    /\ player.direction = 0
    /\ Len(slices) = WIDTH
    /\ slices[HalfWidth + 1].tile = "A"
    /\ slices[HalfWidth + 1].vec.x > (DOF - 1) * Tile1

\* both searches of column i hit, and their hit vectors are equally long
TiedColumn(i) ==
    LET found == ColumnSearches(map, player, RayNumber(i)) IN
    /\ found[1] # None
    /\ found[2] # None
    /\ LengthSquared(found[1][1][1]) = LengthSquared(found[2][1][1])

\* C14: when both searches hit and the two hit vectors have exactly equal
\* length, the hit of the horizontal-line search (x_res), with its face
\* direction and tile, is the one reported.
C14_HorizontalWinsTies ==
    pc = "done" =>
        \A i \in 1..Len(slices) :
            TiedColumn(i) => Reports(i, ColumnSearches(map, player, RayNumber(i))[1][1])

\* C14 as amended: on a tie the hit of the vertical-line search (y_res), with
\* its face direction and tile, is the one reported.
C14_VerticalWinsTies ==
    pc = "done" =>
        \A i \in 1..Len(slices) :
            TiedColumn(i) => Reports(i, ColumnSearches(map, player, RayNumber(i))[2][1])

\* C14 witness: a column with a tie whose two hits differ, reported with a
\* face of the vertical-line search
C14_Witness ==
    /\ pc = "done"
    /\ \E i \in 1..Len(slices) :
          /\ TiedColumn(i)
          /\ slices[i].face_direction \in {"East", "West"}

\* what ray-mode colliding finds at the k-th crossing of the search s
TileAt(s, k) ==
    Colliding(map, <<player.pos[1] + Crossing(s, k)[1], player.pos[2] + Crossing(s, k)[2]>>, FALSE)

\* the k-th crossing of s holds a custom tile that is not flagged `skip`
Accepted(s, k, skip) == TileAt(s, k) # None /\ ~map.custom_tiles[TileAt(s, k)[1]][skip]

\* the report of a search by the rule of C15: the first accepted crossing
\* among the first DOF, a quarter step further on for a tile flagged `nudge`
SearchReport(s, skip, nudge) ==
    LET hits == IF s = None THEN {} ELSE {k \in 0..(DOF - 1) : Accepted(s, k, skip)} IN
    IF hits = {} THEN None
    ELSE LET k == CHOOSE h \in hits : \A j \in hits : h <= j
             tile == TileAt(s, k)[1]
         IN  Some(<<IF map.custom_tiles[tile][nudge] THEN Nudged(s, k) ELSE Crossing(s, k),
                    s[1][3], tile>>)

\* C15: the horizontal-line search reports the first of its at most DOF
\* crossings whose cell holds a custom tile that is not half_width, at the
\* crossing itself or a quarter step further on when the tile is
\* half_height; the vertical-line search does the same with the two flags
\* exchanged; a later crossing never replaces an accepted hit.
C15_FirstAcceptedCrossing ==
    pc = "done" =>
        \A i \in 1..WIDTH :
            LET angle == RayAngle(player.direction, RayNumber(i))
                found == ColumnSearches(map, player, RayNumber(i))
            IN  /\ found[1] = SearchReport(XStart(player.pos, angle), "half_width", "half_height")
                /\ found[2] = SearchReport(YStart(player.pos, angle), "half_height", "half_width")

\* C15 witness: in one frame, a horizontal-line search that passed over a
\* half_width tile at its first crossing and hit at its second, and one that
\* hit a half_height tile
C15_Witness ==
    /\ pc = "done"
    /\ \E i \in 1..WIDTH :
          LET x == XStart(player.pos, RayAngle(player.direction, RayNumber(i)))
              found == ColumnSearches(map, player, RayNumber(i))
          IN  /\ x # None
              /\ TileAt(x, 0) # None
              /\ map.custom_tiles[TileAt(x, 0)[1]].half_width
              /\ found[1] # None
              /\ found[1][1][1] = Crossing(x, 1)
    /\ \E i \in 1..WIDTH :
          LET found == ColumnSearches(map, player, RayNumber(i)) IN
          /\ found[1] # None
          /\ map.custom_tiles[found[1][1][3]].half_height

\* the value of the color parameter of a metadata line, if it has one
ColorParam(line) ==
    LET params == CollectParams(Tail(Split(line, ","))) IN
    IF params # None /\ "color" \in DOMAIN params[1] THEN Some(params[1]["color"]) ELSE None

\* the value of the two hex digits of s at places i and i + 1
HexPair(s, i) == FromStrRadix(SubSeq(s, i, i + 1), 16).val

\* C16: loading a fog metadata line with color=#rrggbb yields a fog color
\* whose red, green and blue channels are the values of the digit pairs rr,
\* gg and bb.
C16_FogColorChannels ==
    (/\ loaded.tag = "Ok"
     /\ Len(file) >= 2
     /\ file[1] = "!!!!META"
     /\ Head(Split(file[2], ",")) = "fog"
     /\ ColorParam(file[2]) # None) =>
        LET hex == ColorParam(file[2])[1] IN
        \E fog \in loaded.val.meta :
            fog.color = RGB(HexPair(hex, 2), HexPair(hex, 4), HexPair(hex, 6))

\* C17: the player starts on the spawn cell, where the player-mode collision
\* query returns none, and after any sequence of held-key updates in any
\* game states the player-mode query at the player's position still returns
\* none: no movement update ends inside a collidable tile.
C17_NeverInsideWall == Colliding(map, player.pos, TRUE) = None

\* C17 witness: a movement update whose step led into a collidable tile on
\* both axes left the player where it was
C17_Witness ==
    /\ last_call.step[1] # 0
    /\ last_call.step[2] # 0
    /\ Colliding(map, <<last_call.from[1] + last_call.step[1], last_call.from[2]>>, TRUE) # None
    /\ Colliding(map, <<last_call.from[1], last_call.from[2] + last_call.step[2]>>, TRUE) # None
    /\ player.pos = last_call.from

====
